---- MODULE Spec2Model ----
(***************************************************************************)
(* Model of indexer/faiss_index.py: the FaissIndex object (vector index,   *)
(* slot -> document-id mapping, next_faiss_id, lock), the MetadataDB it    *)
(* writes to, the two persisted files, and the callers' threads.           *)
(* Beside it, what its callers do with it: get_index, ingest_docx and      *)
(* chunk_text of ingesters/ingest_docs.py, and the evidence blocks of      *)
(* rag/prompt_builder.py.                                                  *)
(*                                                                         *)
(* A vector is a tuple of integers (coordinates scaled by 100); the        *)
(* distance is the squared L2 distance IndexHNSWFlat reports.  A python    *)
(* dict is a sequence of key/value pairs in insertion order; a key is      *)
(* either the int n or the str "n", which python keeps apart and JSON      *)
(* does not.                                                               *)
(***************************************************************************)
EXTENDS Integers, Sequences, FiniteSets, TLC

VARIABLES
    alive,          \* a FaissIndex object exists (the process is running)
    db,             \* MetadataDB: the rows of table documents, id = position
    index,          \* self.index: the vectors in slot order (slot = position - 1)
    id_to_doc_id,   \* self.id_to_doc_id: dict, as a sequence of [k, v] pairs
    next_faiss_id,  \* self.next_faiss_id
    lock,           \* self.lock: the thread holding it, or NoThread
    file_index,     \* the file db/faiss.index
    file_mapping,   \* the file db/faiss.index.mapping.json
    th,             \* per thread: position in its current call and its locals
    out,            \* the outcome of the call that ended in the last step, if one did
    g,              \* history kept for stating the properties
    ingest,         \* a call of ingest_docx: the chunks still to add, its return
    chunker         \* a call of chunk_text: its arguments, locals and spans

vars == <<alive, db, index, id_to_doc_id, next_faiss_id, lock,
          file_index, file_mapping, th, out, g, ingest, chunker>>

-----------------------------------------------------------------------------
(* Bounds of the model *)

MaxDocs == 2        \* add calls over the life of the files, one caller
MaxAdds == 2        \* add calls on one object, several callers
MaxChunks == 2      \* chunks of an ingested file
MaxText == 4        \* characters of a text given to chunk_text

(* Program constant: get_embedding_dim() *)
EmbeddingDim == 4

Threads == {"t1", "t2"}
NoThread == "none"

(* The vectors callers pass: two of the configured dimension, one shorter. *)
VecA == <<100, 0, 0, 0>>
VecB == <<0, 100, 0, 0>>
VecShort == <<100, 0, 0>>
Vectors == {VecA, VecB, VecShort}
(* The three documents of the worked example: a, b and c = [0.99, 0.01, 0, 0]. *)
VecC == <<99, 1, 0, 0>>
ScenarioChunks == {[vec |-> VecA, snip |-> "a"], [vec |-> VecB, snip |-> "b"],
                   [vec |-> VecC, snip |-> "c"]}
ScenarioKs == {1, 2, 3}

(* A chunk is what an ingester passes to add_vector: the embedding of a text
   and the snippet cut from the same text. *)
Chunks == {[vec |-> VecA, snip |-> "a"], [vec |-> VecB, snip |-> "b"],
           [vec |-> VecShort, snip |-> "c"]}

-----------------------------------------------------------------------------
(* MetadataDB *)

AddDocumentReplace(rows, snippet) ==
    \* INSERT OR REPLACE under the last assigned id: the row is overwritten
    IF rows = <<>>
    THEN [rows |-> <<[id |-> 1, snippet |-> snippet]>>, lastrowid |-> 1]
    ELSE [rows |-> [rows EXCEPT ![Len(rows)] = [id |-> Len(rows), snippet |-> snippet]],
          lastrowid |-> Len(rows)]

AddDocument(rows, snippet) ==
    \* INSERT INTO documents; lastrowid is the new row's position
    [rows |-> Append(rows, [id |-> Len(rows) + 1, snippet |-> snippet]),
     lastrowid |-> Len(rows) + 1]

GetDocument(rows, doc_id) ==
    \* SELECT * FROM documents WHERE id = ?; <<>> models None
    IF doc_id \in 1..Len(rows) THEN <<rows[doc_id]>> ELSE <<>>

-----------------------------------------------------------------------------
(* python dict and json *)

IntKey(n) == [t |-> "int", n |-> n]
StrKey(n) == [t |-> "str", n |-> n]

DictHas(d, key) == \E i \in 1..Len(d) : d[i].k = key

DictGet(d, key) ==
    \* dict.get: the value, or 0 for None (document ids start at 1)
    IF DictHas(d, key)
    THEN d[CHOOSE i \in 1..Len(d) : d[i].k = key].v
    ELSE 0

DictSet(d, key, val) ==
    \* d[key] = val: overwrite in place, or insert at the end
    IF DictHas(d, key)
    THEN [i \in 1..Len(d) |-> IF d[i].k = key THEN [k |-> key, v |-> val] ELSE d[i]]
    ELSE Append(d, [k |-> key, v |-> val])

JsonDumpDropLast(d) ==
    \* the dump misses the entry recorded last
    [i \in 1..(Len(d) - 1) |-> [k |-> d[i].k.n, v |-> d[i].v]]

JsonDump(d) ==
    \* json.dump: every key is written as a string, pairs in dict order
    [i \in 1..Len(d) |-> [k |-> d[i].k.n, v |-> d[i].v]]

RECURSIVE JsonLoadFrom(_, _)
JsonLoadFrom(text, acc) ==
    IF text = <<>> THEN acc
    ELSE JsonLoadFrom(Tail(text), DictSet(acc, StrKey(Head(text).k), Head(text).v))

JsonLoad(text) ==
    \* json.load of an object: str keys, a repeated key keeps its last value
    JsonLoadFrom(text, <<>>)

-----------------------------------------------------------------------------
(* files *)

Absent == [st |-> "absent", data |-> <<>>]
Corrupt == [st |-> "corrupt", data |-> <<>>]
FileOf(data) == [st |-> "ok", data |-> data]

-----------------------------------------------------------------------------
(* faiss.IndexHNSWFlat: add and search *)

IndexAdd(idx, vec, doc) ==
    \* index.add appends the vector at slot ntotal; doc is history (which add
    \* call inserted it), not data faiss stores
    Append(idx, [vec |-> vec, by |-> doc])

RECURSIVE SumSq(_, _, _)
SumSq(a, b, i) ==
    IF i = 0 THEN 0 ELSE (a[i] - b[i]) * (a[i] - b[i]) + SumSq(a, b, i - 1)

RECURSIVE DotProduct(_, _, _)
DotProduct(a, b, i) ==
    IF i = 0 THEN 0 ELSE a[i] * b[i] + DotProduct(a, b, i - 1)

DistanceInnerProduct(a, b) ==
    \* the inner product taken for a distance: the least similar vector first
    DotProduct(a, b, EmbeddingDim)

Distance(a, b) == SumSq(a, b, EmbeddingDim)      \* squared L2, METRIC_L2

Slots(idx) == 0..(Len(idx) - 1)

Range(s) == {s[i] : i \in 1..Len(s)}

EngineSearchUnsorted(idx, q, n) ==
    \* any n slots, in any order
    LET D(s) == Distance(idx[s + 1].vec, q)
    IN  {[i \in 1..n |-> [dist |-> D(s[i]), idx |-> s[i]]] :
            s \in {x \in [1..n -> Slots(idx)] :
                    \A i, j \in 1..n : i < j => x[i] # x[j]}}

EngineSearch(idx, q, n) ==
    \* index.search(q, n) on a non-empty index of at most MaxDocs vectors: the n
    \* nearest slots, nearest first; which of two equally distant slots comes
    \* first is up to the engine, so this is the set of the possible answers
    LET D(s) == Distance(idx[s + 1].vec, q)
    IN  {[i \in 1..n |-> [dist |-> D(s[i]), idx |-> s[i]]] :
            s \in {x \in [1..n -> Slots(idx)] :
                    /\ \A i, j \in 1..n : i < j => x[i] # x[j] /\ D(x[i]) <= D(x[j])
                    /\ \A o \in Slots(idx) \ Range(x) : D(o) >= D(x[n])}}

IndexEmptyNever(idx) ==
    \* the guard of line 166 left out: the engine is asked on every index
    FALSE

IndexEmpty(idx) ==
    \* search, line 166: self.index.ntotal == 0 (self.index is never None
    \* once __init__ returned)
    Len(idx) = 0

SearchRaises(idx, q, k) ==
    \* faiss rejects a query of another dimension and a k that is not positive
    Len(q) # EmbeddingDim \/ (IF k < Len(idx) THEN k ELSE Len(idx)) <= 0

ResolveHitSentinelAsSlot(d, rows, hit) ==
    \* the test of line 177 left out and -1 taken for the first slot
    LET h == IF hit.idx = -1 THEN [hit EXCEPT !.idx = 0] ELSE hit
        doc_id == DictGet(d, IntKey(h.idx))
    IN  IF doc_id # 0 /\ GetDocument(rows, doc_id) # <<>>
        THEN <<[distance |-> h.dist, faiss_id |-> h.idx,
                document |-> GetDocument(rows, doc_id)[1]]>>
        ELSE <<>>

ResolveHit(d, rows, hit) ==
    \* one round of the loop of search: <<result>> or <<>> when the hit is dropped
    IF hit.idx = -1 THEN <<>>
    ELSE LET doc_id == DictGet(d, IntKey(hit.idx))
         IN  IF doc_id # 0 /\ GetDocument(rows, doc_id) # <<>>
             THEN <<[distance |-> hit.dist, faiss_id |-> hit.idx,
                     document |-> GetDocument(rows, doc_id)[1]]>>
             ELSE <<>>

RecordMappingNoIncrement(d, nxt, doc) ==
    \* the entry is stored but next_faiss_id is left as it was
    [faiss_id |-> nxt, id_to_doc_id |-> DictSet(d, IntKey(nxt), doc),
     next_faiss_id |-> nxt]

RecordMapping(d, nxt, doc) ==
    \* add_vector, lines 146-148: faiss_id = next_faiss_id, the dict entry, the
    \* increment
    [faiss_id |-> nxt, id_to_doc_id |-> DictSet(d, IntKey(nxt), doc),
     next_faiss_id |-> nxt + 1]

GetStats(idx) == [total_vectors |-> Len(idx), embedding_dim |-> EmbeddingDim]

-----------------------------------------------------------------------------
(* FaissIndex._load_or_create_index *)

NextIdOf(d) ==
    \* max(d.keys()) + 1 if d else 0; str keys make the sum a TypeError
    IF d = <<>> THEN [err |-> FALSE, val |-> 0]
    ELSE IF \E i \in 1..Len(d) : d[i].k.t = "str" THEN [err |-> TRUE, val |-> 0]
    ELSE [err |-> FALSE,
          val |-> 1 + (CHOOSE m \in {d[i].k.n : i \in 1..Len(d)} :
                          \A i \in 1..Len(d) : d[i].k.n <= m)]

Loaded(idx, d, nxt, log) ==
    [index |-> idx, id_to_doc_id |-> d, next_faiss_id |-> nxt, log |-> log,
     raised |-> FALSE]

LoadOrCreateNoCatch(fi, fm) ==
    \* without the try/except of lines 106-118 a failed read leaves __init__
    IF fi.st = "absent" THEN Loaded(<<>>, <<>>, 0, "created")
    ELSE IF fi.st = "corrupt" \/ fm.st = "corrupt"
    THEN [Loaded(<<>>, <<>>, 0, "error") EXCEPT !.raised = TRUE]
    ELSE IF fm.st = "absent" THEN Loaded(fi.data, <<>>, 0, "loaded")
    ELSE LET d == JsonLoad(fm.data)
         IN  IF NextIdOf(d).err
             THEN [Loaded(<<>>, d, 0, "error") EXCEPT !.raised = TRUE]
             ELSE Loaded(fi.data, d, NextIdOf(d).val, "loaded")

LoadOrCreate(fi, fm) ==
    \* the fields of the object after __init__ and _load_or_create_index; the
    \* except branch keeps what was assigned before the error and replaces
    \* self.index by a new empty index
    IF fi.st = "absent" THEN Loaded(<<>>, <<>>, 0, "created")
    ELSE IF fi.st = "corrupt" THEN Loaded(<<>>, <<>>, 0, "error")
    ELSE IF fm.st = "absent" THEN Loaded(fi.data, <<>>, 0, "loaded")
    ELSE IF fm.st = "corrupt" THEN Loaded(<<>>, <<>>, 0, "error")
    ELSE LET d == JsonLoad(fm.data)
         IN  IF NextIdOf(d).err
             THEN Loaded(<<>>, d, 0, "error")
             ELSE Loaded(fi.data, d, NextIdOf(d).val, "loaded")

-----------------------------------------------------------------------------
(* rag/prompt_builder.py: the evidence part of the prompt, a block per result *)

FormatEvidenceBlock(evidence, i) ==
    \* format_evidence_block: the snippet is evidence.get('snippet', ''), read
    \* from the result itself; doc = evidence.get('document', {}) gives the
    \* file name of the head line
    [index |-> i,
     document |-> IF "document" \in DOMAIN evidence THEN evidence.document.id ELSE 0,
     snippet |-> IF "snippet" \in DOMAIN evidence THEN evidence.snippet ELSE ""]

EvidenceLimit == 10      \* build_prompt: evidence_list[:10]

BuildPrompt(evidence_list) ==
    \* build_prompt, lines 61-87: the blocks of the first ten results, in order
    [i \in 1..(IF Len(evidence_list) < EvidenceLimit
               THEN Len(evidence_list) ELSE EvidenceLimit)
        |-> FormatEvidenceBlock(evidence_list[i], i)]

-----------------------------------------------------------------------------
(* threads *)

NoAdd == [vec |-> <<>>, slot |-> -1]
Counts == <<Len(index), Len(id_to_doc_id), Len(db)>>

\* locals of a call: of add, the arguments, doc_id and faiss_id; of search, the
\* arguments and the hits.  pre is Counts when the call began; after tells that a search with
\* k = 1 directly follows the add of the vector it asks for, again that a save
\* directly follows a completed save
IdleT == [pc |-> "idle", op |-> "none", vec |-> <<>>, snip |-> "",
          doc_id |-> 0, faiss_id |-> -1, q |-> <<>>, k |-> 0, hits |-> <<>>,
          pre |-> <<0, 0, 0>>, after |-> NoAdd, again |-> FALSE]

NoRet == [op |-> "none", ok |-> FALSE, err |-> "", slot |-> -1, vec |-> <<>>,
          results |-> <<>>, pre |-> <<0, 0, 0>>, post |-> <<0, 0, 0>>,
          after |-> NoAdd, again |-> FALSE]

NoSave == [ok |-> FALSE, index |-> <<>>, id_to_doc_id |-> <<>>]

\* no ingest_docx call: rest are the chunks still to add, pre is Counts when
\* the call began, ret is "run" inside the call and then what it returned
NoIngest == [rest |-> <<>>, pre |-> <<0, 0, 0>>, ret |-> "none"]

\* no chunk_text call
NoChunker == [text |-> <<>>, size |-> 0, overlap |-> 0, start |-> 0,
              spans |-> <<>>, pc |-> "none"]

Init ==
    /\ alive = FALSE
    /\ db = <<>>
    /\ index = <<>>
    /\ id_to_doc_id = <<>>
    /\ next_faiss_id = 0
    /\ lock = NoThread
    /\ file_index = Absent
    /\ file_mapping = Absent
    /\ th = [t \in Threads |-> IdleT]
    /\ out = NoRet
    /\ g = [first |-> TRUE, fresh |-> FALSE, log |-> "", raised |-> FALSE,
            addFailed |-> FALSE, returned |-> <<>>, adders |-> {},
            saved |-> NoSave, durable |-> <<Absent, Absent>>, created |-> 0]
    /\ ingest = NoIngest
    /\ chunker = NoChunker

Construct ==
    \* FaissIndex(): __init__ and _load_or_create_index
    /\ ~alive
    /\ LET o == LoadOrCreate(file_index, file_mapping)
       IN  /\ alive' = ~o.raised
           /\ index' = o.index
           /\ id_to_doc_id' = o.id_to_doc_id
           /\ next_faiss_id' = o.next_faiss_id
           /\ g' = [g EXCEPT !.first = (db = <<>> /\ file_index.st = "absent"),
                             !.fresh = TRUE, !.log = o.log,
                             !.raised = o.raised, !.addFailed = FALSE,
                             !.returned = <<>>, !.adders = {}]
    /\ out' = NoRet
    /\ UNCHANGED <<db, lock, file_index, file_mapping, th>>
    /\ UNCHANGED <<ingest, chunker>>

GetIndexCheck(t) ==
    \* get_index, line 222: the thread finds _index is None.  (A thread that
    \* finds an instance goes on to its call, which is enabled while alive.)
    /\ ~alive /\ th[t].pc = "idle"
    /\ th' = [th EXCEPT ![t].pc = "g_new"]
    /\ out' = NoRet
    /\ UNCHANGED <<alive, db, index, id_to_doc_id, next_faiss_id, lock,
                   file_index, file_mapping, g>>
    /\ UNCHANGED <<ingest, chunker>>

GetIndexCreate(t) ==
    \* get_index, line 223: _index = FaissIndex(); the variables of the object
    \* are from here on those of the instance _index names; created counts the
    \* instances made
    /\ th[t].pc = "g_new"
    /\ LET o == LoadOrCreate(file_index, file_mapping)
       IN  /\ alive' = TRUE
           /\ index' = o.index
           /\ id_to_doc_id' = o.id_to_doc_id
           /\ next_faiss_id' = o.next_faiss_id
           /\ g' = [g EXCEPT !.first = (db = <<>> /\ file_index.st = "absent"),
                             !.fresh = TRUE, !.log = o.log,
                             !.raised = o.raised, !.addFailed = FALSE,
                             !.returned = <<>>, !.adders = {},
                             !.created = @ + 1]
    /\ lock' = NoThread
    /\ th' = [th EXCEPT ![t].pc = "idle"]
    /\ out' = NoRet
    /\ UNCHANGED <<db, file_index, file_mapping>>
    /\ UNCHANGED <<ingest, chunker>>

Exit ==
    \* the process ends between calls; only the files and the database remain
    /\ alive
    /\ \A t \in Threads : th[t].pc = "idle"
    /\ alive' = FALSE
    /\ index' = <<>>
    /\ id_to_doc_id' = <<>>
    /\ next_faiss_id' = 0
    /\ out' = NoRet
    /\ g' = [g EXCEPT !.fresh = FALSE]
    /\ UNCHANGED <<db, lock, file_index, file_mapping, th>>
    /\ UNCHANGED <<ingest, chunker>>

Outcome(t, ok, err) ==
    \* what the caller of the call of thread t gets, with the counts before and after
    [NoRet EXCEPT !.op = th[t].op, !.ok = ok, !.err = err,
                  !.vec = th[t].vec, !.after = th[t].after, !.pre = th[t].pre,
                  !.again = th[t].again,
                  !.post = IF th[t].op = "search" THEN <<0, 0, 0>> ELSE Counts]

RaiseSwallowed(t, err) ==
    \* the exception is caught inside the call, which returns its slot
    /\ lock' = IF lock = t THEN NoThread ELSE lock
    /\ out' = [Outcome(t, TRUE, "") EXCEPT !.slot = next_faiss_id]
    /\ th' = [th EXCEPT ![t] = IdleT]

Raise(t, err) ==
    \* an exception leaves the call: `with self.lock` releases the lock
    /\ lock' = IF lock = t THEN NoThread ELSE lock
    /\ out' = Outcome(t, FALSE, err)
    /\ th' = [th EXCEPT ![t] = IdleT]

AddBeginNoLock(t, c) ==
    \* add_vector entered without waiting for the lock
    /\ alive /\ th[t].pc = "idle"
    /\ lock' = t
    /\ th' = [th EXCEPT ![t] = [IdleT EXCEPT !.pc = "a_meta", !.op = "add",
                                             !.vec = c.vec, !.snip = c.snip,
                                             !.pre = Counts]]
    /\ out' = NoRet
    /\ g' = [g EXCEPT !.fresh = FALSE]
    /\ UNCHANGED <<alive, db, index, id_to_doc_id, next_faiss_id,
                   file_index, file_mapping>>
    /\ UNCHANGED <<ingest, chunker>>

AddBegin(t, c) ==
    \* add_vector, lines 132-134: take the lock
    /\ alive /\ th[t].pc = "idle" /\ lock = NoThread
    /\ lock' = t
    /\ th' = [th EXCEPT ![t] = [IdleT EXCEPT !.pc = "a_meta", !.op = "add",
                                             !.vec = c.vec, !.snip = c.snip,
                                             !.pre = Counts]]
    /\ out' = NoRet
    /\ g' = [g EXCEPT !.fresh = FALSE]
    /\ UNCHANGED <<alive, db, index, id_to_doc_id, next_faiss_id,
                   file_index, file_mapping>>
    /\ UNCHANGED <<ingest, chunker>>

AddMetadata(t) ==
    \* line 137: metadata_db.add_document
    /\ th[t].pc = "a_meta"
    /\ LET r == AddDocument(db, th[t].snip)
       IN  /\ db' = r.rows
           /\ th' = [th EXCEPT ![t].pc = "a_vec", ![t].doc_id = r.lastrowid]
    /\ out' = NoRet
    /\ UNCHANGED <<alive, index, id_to_doc_id, next_faiss_id, lock,
                   file_index, file_mapping, g>>
    /\ UNCHANGED <<ingest, chunker>>

AddVector(t) ==
    \* lines 140-143: index.add, which raises on a vector of another dimension
    /\ th[t].pc = "a_vec"
    /\ IF Len(th[t].vec) # EmbeddingDim
       THEN /\ Raise(t, "dimension")
            /\ g' = [g EXCEPT !.addFailed = TRUE]
            /\ UNCHANGED index
       ELSE /\ index' = IndexAdd(index, th[t].vec, th[t].doc_id)
            /\ th' = [th EXCEPT ![t].pc = "a_map"]
            /\ g' = [g EXCEPT !.saved = NoSave]
            /\ out' = NoRet
            /\ UNCHANGED lock
    /\ UNCHANGED <<alive, db, id_to_doc_id, next_faiss_id, file_index, file_mapping>>
    /\ UNCHANGED <<ingest, chunker>>

AddMapping(t) ==
    \* lines 146-148: record the mapping under next_faiss_id
    /\ th[t].pc = "a_map"
    /\ LET r == RecordMapping(id_to_doc_id, next_faiss_id, th[t].doc_id)
       IN  /\ id_to_doc_id' = r.id_to_doc_id
           /\ next_faiss_id' = r.next_faiss_id
           /\ th' = [th EXCEPT ![t].pc = "w_map", ![t].faiss_id = r.faiss_id]
    /\ out' = NoRet
    /\ UNCHANGED <<alive, db, index, lock, file_index, file_mapping, g>>
    /\ UNCHANGED <<ingest, chunker>>

SaveBegin(t) ==
    \* save, lines 205-207
    /\ alive /\ th[t].pc = "idle" /\ lock = NoThread
    /\ lock' = t
    /\ th' = [th EXCEPT ![t] = [IdleT EXCEPT !.pc = "w_map", !.op = "save",
                                             !.pre = Counts,
                                             !.again = (out.op = "save" /\ out.ok)]]
    /\ out' = NoRet
    /\ g' = [g EXCEPT !.fresh = FALSE]
    /\ UNCHANGED <<alive, db, index, id_to_doc_id, next_faiss_id,
                   file_index, file_mapping>>
    /\ UNCHANGED <<ingest, chunker>>

WriteMappingAppend(t) ==
    \* the mapping file opened with 'a': the dump is appended to what is there
    /\ th[t].pc = "w_map"
    /\ file_mapping' = FileOf(file_mapping.data \o JsonDump(id_to_doc_id))
    /\ th' = [th EXCEPT ![t].pc = "w_idx"]
    /\ g' = [g EXCEPT !.saved = NoSave]
    /\ out' = NoRet
    /\ UNCHANGED <<alive, db, index, id_to_doc_id, next_faiss_id, lock, file_index>>
    /\ UNCHANGED <<ingest, chunker>>

WriteMapping(t) ==
    \* _save_mapping, lines 157-159
    /\ th[t].pc = "w_map"
    /\ file_mapping' = FileOf(JsonDump(id_to_doc_id))
    /\ th' = [th EXCEPT ![t].pc = "w_idx"]
    /\ g' = [g EXCEPT !.saved = NoSave]
    /\ out' = NoRet
    /\ UNCHANGED <<alive, db, index, id_to_doc_id, next_faiss_id, lock, file_index>>
    /\ UNCHANGED <<ingest, chunker>>

WriteMappingFail(t) ==
    \* the write fails: open() failed (file untouched) or the dump did (the
    \* file was truncated by open(.., 'w') and is no JSON document)
    /\ th[t].pc = "w_map"
    /\ \E f \in {file_mapping, Corrupt} : file_mapping' = f
    /\ Raise(t, "io")
    /\ g' = [g EXCEPT !.saved = NoSave, !.addFailed = @ \/ th[t].op = "add"]
    /\ UNCHANGED <<alive, db, index, id_to_doc_id, next_faiss_id, file_index>>
    /\ UNCHANGED <<ingest, chunker>>

WriteIndex(t) ==
    \* line 162: faiss.write_index; then add_vector returns faiss_id (line 153)
    \* and save returns, releasing the lock
    /\ th[t].pc = "w_idx"
    /\ file_index' = FileOf(index)
    /\ lock' = NoThread
    /\ out' = [Outcome(t, TRUE, "") EXCEPT !.slot = th[t].faiss_id]
    /\ th' = [th EXCEPT ![t] = IdleT]
    /\ g' = [g EXCEPT !.saved = [ok |-> TRUE, index |-> index,
                                 id_to_doc_id |-> id_to_doc_id],
                      !.durable = <<file_mapping, FileOf(index)>>,
                      !.returned = IF th[t].op = "add"
                                   THEN Append(@, th[t].faiss_id) ELSE @,
                      !.adders = IF th[t].op = "add" THEN @ \cup {t} ELSE @]
    /\ UNCHANGED <<alive, db, index, id_to_doc_id, next_faiss_id, file_mapping>>
    /\ UNCHANGED <<ingest, chunker>>

WriteIndexFail(t) ==
    \* faiss.write_index fails before or after it began to overwrite the file
    /\ th[t].pc = "w_idx"
    /\ \E f \in {file_index, Corrupt} : file_index' = f
    /\ Raise(t, "io")
    /\ g' = [g EXCEPT !.saved = NoSave, !.addFailed = @ \/ th[t].op = "add"]
    /\ UNCHANGED <<alive, db, index, id_to_doc_id, next_faiss_id, file_mapping>>
    /\ UNCHANGED <<ingest, chunker>>

RECURSIVE ResolveAll(_, _, _)
ResolveAll(d, rows, hits) ==
    \* the loop of lines 175-190 over the hits
    IF hits = <<>> THEN <<>>
    ELSE ResolveHit(d, rows, Head(hits)) \o ResolveAll(d, rows, Tail(hits))

SearchBegin(t, q, k) ==
    \* search, lines 166-173: the lock is not taken; on a non-empty index the
    \* engine is asked for min(k, ntotal) hits
    /\ alive /\ th[t].pc = "idle"
    /\ LET after == IF out.op = "add" /\ out.ok /\ out.vec = q /\ k = 1
                    THEN [vec |-> out.vec, slot |-> out.slot] ELSE NoAdd
           call == [IdleT EXCEPT !.op = "search", !.after = after]
           done(ok, err) == [NoRet EXCEPT !.op = "search", !.ok = ok, !.err = err,
                                          !.after = after]
       IN  IF IndexEmpty(index)
           THEN out' = done(TRUE, "") /\ UNCHANGED th
           ELSE IF SearchRaises(index, q, k)
           THEN out' = done(FALSE, "assertion") /\ UNCHANGED th
           ELSE /\ \E hits \in EngineSearch(index, q,
                                            IF k < Len(index) THEN k ELSE Len(index)) :
                      th' = [th EXCEPT ![t] = [call EXCEPT !.pc = "s_loop",
                                                           !.q = q, !.k = k,
                                                           !.hits = hits]]
                /\ out' = NoRet
    /\ g' = [g EXCEPT !.fresh = FALSE]
    /\ UNCHANGED <<alive, db, index, id_to_doc_id, next_faiss_id, lock,
                   file_index, file_mapping>>
    /\ UNCHANGED <<ingest, chunker>>

SearchJoin(t) ==
    \* lines 175-192: the loop over the hits, and the return.  The dict and the
    \* table only grow while an object lives, so the rounds are taken as one step
    /\ th[t].pc = "s_loop"
    /\ out' = [Outcome(t, TRUE, "") EXCEPT
                  !.results = ResolveAll(id_to_doc_id, db, th[t].hits)]
    /\ th' = [th EXCEPT ![t] = IdleT]
    /\ UNCHANGED <<alive, db, index, id_to_doc_id, next_faiss_id, lock,
                   file_index, file_mapping, g>>
    /\ UNCHANGED <<ingest, chunker>>

Ks == {0, 1, 2}      \* the values of k callers pass

Calls(t, cap) ==
    \* the steps of the calls of one caller; cap bounds the rows of documents
    \/ \E c \in Chunks : Len(db) < cap /\ AddBegin(t, c)
    \/ AddMetadata(t)
    \/ AddVector(t)
    \/ AddMapping(t)
    \/ SaveBegin(t)
    \/ WriteMapping(t)
    \/ WriteIndex(t)
    \/ \E q \in Vectors, k \in Ks : SearchBegin(t, q, k)
    \/ SearchJoin(t)

Faults(t) ==
    \* a write of a persisted file fails
    \/ WriteMappingFail(t)
    \/ WriteIndexFail(t)

(* One caller, over the whole life of the files: objects are constructed, used,
   dropped at exit and constructed again over what was persisted. *)
Next ==
    \/ Construct
    \/ Exit
    \/ Calls("t1", MaxDocs)
    \/ Faults("t1")

Spec == Init /\ [][Next]_vars

(* Several callers' threads on the one object of a run, the storage working. *)
NextThreads ==
    \/ Construct
    \/ \E t \in Threads : Calls(t, MaxAdds)

SpecThreads == Init /\ [][NextThreads]_vars

(* One caller adds the documents a, b and c, each once and in any order, and
   searches in between, the storage working. *)
NextScenario ==
    \/ Construct
    \/ \E c \in ScenarioChunks :
          /\ \A i \in 1..Len(db) : db[i].snippet # c.snip
          /\ AddBegin("t1", c)
    \/ AddMetadata("t1")
    \/ AddVector("t1")
    \/ AddMapping("t1")
    \/ WriteMapping("t1")
    \/ WriteIndex("t1")
    \/ \E q \in {VecA, VecB, VecC}, k \in ScenarioKs : SearchBegin("t1", q, k)
    \/ SearchJoin("t1")

SpecScenario == Init /\ [][NextScenario]_vars

(* The callers' threads reach the object through get_index, which makes it on
   first use.  The calls are followed while one instance has been made: with a
   second, callers that fetched the first no longer share _index. *)
NextGetIndex ==
    \/ \E t \in Threads : GetIndexCheck(t)
    \/ \E t \in Threads : GetIndexCreate(t)
    \/ \E t \in Threads : g.created = 1 /\ Calls(t, MaxAdds)

SpecGetIndex == Init /\ [][NextGetIndex]_vars

(* ingesters/ingest_docs.py, ingest_docx: the chunks of the file are embedded
   and added one by one; an exception of a call returns False. *)
RECURSIVE SeqsUpTo(_, _)
SeqsUpTo(S, n) ==
    IF n = 0 THEN {<<>>}
    ELSE SeqsUpTo(S, n - 1)
            \cup {Append(f, c) : f \in {x \in SeqsUpTo(S, n - 1) : Len(x) = n - 1},
                                 c \in S}

\* the chunks of a file; text_to_embedding gives vectors of the configured
\* dimension
IngestFiles == SeqsUpTo({c \in Chunks : Len(c.vec) = EmbeddingDim}, MaxChunks)

IngestBegin(f) ==
    \* lines 118-131: a file without text returns False at once
    /\ alive /\ th["t1"].pc = "idle" /\ ingest.ret = "none"
    /\ ingest' = [rest |-> f, pre |-> Counts,
                  ret |-> IF f = <<>> THEN "false" ELSE "run"]
    /\ out' = NoRet
    /\ UNCHANGED <<alive, db, index, id_to_doc_id, next_faiss_id, lock,
                   file_index, file_mapping, th, g, chunker>>

IngestAddVector ==
    \* lines 133-155: the add_vector call for the next chunk
    /\ ingest.ret = "run" /\ ingest.rest # <<>> /\ out.op # "add"
    /\ AddBegin("t1", Head(ingest.rest))

IngestAdvance ==
    \* add_vector returned: the next round of the loop, or lines 157-158
    /\ ingest.ret = "run" /\ out.op = "add" /\ out.ok
    /\ ingest' = [ingest EXCEPT !.rest = Tail(@),
                                !.ret = IF Tail(ingest.rest) = <<>> THEN "true" ELSE "run"]
    /\ out' = NoRet
    /\ UNCHANGED <<alive, db, index, id_to_doc_id, next_faiss_id, lock,
                   file_index, file_mapping, th, g, chunker>>

IngestExcept ==
    \* lines 160-162: add_vector raised; the error is printed, False returned
    /\ ingest.ret = "run" /\ out.op = "add" /\ ~out.ok
    /\ ingest' = [ingest EXCEPT !.ret = "false"]
    /\ out' = NoRet
    /\ UNCHANGED <<alive, db, index, id_to_doc_id, next_faiss_id, lock,
                   file_index, file_mapping, th, g, chunker>>

NextIngest ==
    \/ Construct
    \/ \E f \in IngestFiles : IngestBegin(f)
    \/ IngestAddVector
    \/ AddMetadata("t1")
    \/ AddVector("t1")
    \/ AddMapping("t1")
    \/ WriteMapping("t1")
    \/ WriteIndex("t1")
    \/ Faults("t1")
    \/ IngestAdvance
    \/ IngestExcept

SpecIngest == Init /\ [][NextIngest]_vars

(* ingesters/ingest_docs.py, chunk_text.  A text is a sequence of characters;
   positions are counted from 0 as in python, so text[i] is here text[i + 1]. *)
Alphabet == {"x", ".", " "}

RFind(text, ch, lo, hi) ==
    \* text.rfind(ch, lo, hi): the last position in lo .. hi-1 holding ch, or -1
    LET at == {i \in lo..(hi - 1) : i < Len(text) /\ text[i + 1] = ch}
    IN  IF at = {} THEN -1 ELSE CHOOSE i \in at : \A j \in at : j <= i

Max(a, b) == IF a > b THEN a ELSE b

ChunkEnd(text, size, start) ==
    \* lines 27-44: the end of the chunk that begins at start
    LET end == start + size
        sentence_end == Max(RFind(text, ".", start, end),
                            Max(RFind(text, "!", start, end),
                                RFind(text, "?", start, end)))
        word_end == RFind(text, " ", start, end)
    IN  IF end < Len(text)
        THEN IF sentence_end > start + (size \div 2) THEN sentence_end + 1
             ELSE IF word_end > start + (size \div 2) THEN word_end
             ELSE end
        ELSE end

ChunkKept(text, start, end) ==
    \* lines 46-48: text[start:end].strip() is not empty
    \E i \in start..(end - 1) : i < Len(text) /\ text[i + 1] # " "

ChunkInputs ==
    \* the calls that pass line 20: a text longer than size, 0 <= overlap < size
    {[NoChunker EXCEPT !.text = t, !.size = sz, !.overlap = ov, !.pc = "loop"] :
        t \in UNION {[1..n -> Alphabet] : n \in 2..MaxText},
        sz \in 1..(MaxText - 1), ov \in 0..(MaxText - 2)}

InitChunk ==
    /\ alive = FALSE
    /\ db = <<>>
    /\ index = <<>>
    /\ id_to_doc_id = <<>>
    /\ next_faiss_id = 0
    /\ lock = NoThread
    /\ file_index = Absent
    /\ file_mapping = Absent
    /\ th = [t \in Threads |-> IdleT]
    /\ out = NoRet
    /\ g = [first |-> TRUE, fresh |-> FALSE, log |-> "", raised |-> FALSE,
            addFailed |-> FALSE, returned |-> <<>>, adders |-> {},
            saved |-> NoSave, durable |-> <<Absent, Absent>>, created |-> 0]
    /\ ingest = NoIngest
    /\ chunker \in {c \in ChunkInputs : Len(c.text) > c.size /\ c.overlap < c.size}

ChunkStep ==
    \* one round of the loop of lines 26-55
    /\ chunker.pc = "loop"
    /\ LET c == chunker
           end == ChunkEnd(c.text, c.size, c.start)
           next == Max(c.start + 1, end - c.overlap)
       IN  chunker' = [c EXCEPT
               !.spans = Append(@, [start |-> c.start, end |-> end,
                                    kept |-> ChunkKept(c.text, c.start, end)]),
               !.start = next,
               !.pc = IF next >= end \/ next >= Len(c.text) THEN "done" ELSE "loop"]
    /\ UNCHANGED <<alive, db, index, id_to_doc_id, next_faiss_id, lock,
                   file_index, file_mapping, th, out, g, ingest>>

NextChunk == ChunkStep

SpecChunk == InitChunk /\ [][NextChunk]_vars

(* The loop of search over what index.search may hand it.  faiss returns k
   entries and fills those it found no vector for with slot -1 and the largest
   float; an approximate search may miss a slot.  The mapping may lack an
   entry (a search beside an add, a loaded file), hold str keys (a loaded file)
   or name a row the table does not have. *)
Infinity == 1000000
Sentinel == [dist |-> Infinity, idx |-> -1]

JoinIndex == <<[vec |-> VecA, by |-> 1], [vec |-> VecB, by |-> 2]>>

JoinHits ==
    LET h(s) == [dist |-> Distance(JoinIndex[s + 1].vec, VecA), idx |-> s]
    IN  {<<h(0), h(1)>>, <<h(0), Sentinel>>, <<h(1), Sentinel>>,
         <<Sentinel, Sentinel>>}

JoinDicts ==
    LET entry(key, v) == IF v = 0 THEN <<>> ELSE <<[k |-> key, v |-> v]>>
    IN  {entry(StrKey(0), s) \o entry(IntKey(0), a) \o entry(IntKey(1), b) :
            s \in {0, 1}, a \in 0..2, b \in 0..2}

JoinTables ==
    {<<[id |-> 1, snippet |-> "a"]>>,
     <<[id |-> 1, snippet |-> "a"], [id |-> 2, snippet |-> "b"]>>}

InitJoin ==
    /\ alive = TRUE
    /\ db \in JoinTables
    /\ index = JoinIndex
    /\ id_to_doc_id \in JoinDicts
    /\ next_faiss_id = 2
    /\ lock = NoThread
    /\ file_index = Absent
    /\ file_mapping = Absent
    /\ \E hits \in JoinHits :
          th = [t \in Threads |->
                  IF t = "t1"
                  THEN [IdleT EXCEPT !.pc = "s_loop", !.op = "search",
                                     !.q = VecA, !.k = 2, !.hits = hits]
                  ELSE IdleT]
    /\ out = NoRet
    /\ g = [first |-> FALSE, fresh |-> FALSE, log |-> "", raised |-> FALSE,
            addFailed |-> FALSE, returned |-> <<>>, adders |-> {},
            saved |-> NoSave, durable |-> <<Absent, Absent>>, created |-> 0]
    /\ ingest = NoIngest
    /\ chunker = NoChunker

NextJoin == SearchJoin("t1")

SpecJoin == InitJoin /\ [][NextJoin]_vars

-----------------------------------------------------------------------------
(* Properties *)

AddInProgress == \E t \in Threads : th[t].op = "add"

ValidVectors == {v \in Vectors : Len(v) = EmbeddingDim}

Min(a, b) == IF a < b THEN a ELSE b

SearchOutcomes(idx, d, rows, q, k) ==
    \* what search(q, k) may return on an object with these fields, for a query
    \* of the configured dimension and k >= 1
    IF Len(idx) = 0 THEN {<<>>}
    ELSE {ResolveAll(d, rows, h) : h \in EngineSearch(idx, q, Min(k, Len(idx)))}

\* C1: on an object constructed over empty storage, while every add call so far
\* succeeded, whenever no add is in progress the index's vector count, the size
\* of the mapping and the number of document ids assigned are equal.
C1_CountsAgree ==
    (alive /\ g.first /\ ~g.addFailed /\ ~AddInProgress)
        => /\ Len(index) = Len(id_to_doc_id)
           /\ Len(id_to_doc_id) = Len(db)

C1_Witness ==
    /\ g.first /\ ~g.addFailed
    /\ out.op = "add" /\ out.ok
    /\ Len(index) = MaxAdds
    /\ g.adders = Threads

\* C2: an add call with a vector of another dimension than the configured one
\* changes nothing: vector count, mapping size and last assigned document id
\* are after the call what they were before it.
C2_WrongDimensionNoMutation ==
    (out.op = "add" /\ out.err = "dimension") => out.post = out.pre

\* C3: after a completed save, a new object constructed over the same files and
\* database reports the same stats and returns the same results for every query
\* as the object that saved.
C3_RoundTrip ==
    (g.fresh /\ g.saved.ok)
        => /\ GetStats(index) = GetStats(g.saved.index)
           /\ \A q \in ValidVectors, k \in Ks \ {0} :
                 SearchOutcomes(index, id_to_doc_id, db, q, k)
                    = SearchOutcomes(g.saved.index, g.saved.id_to_doc_id, db, q, k)

\* C4: a search never holds a hit whose slot has no entry in the mapping.
C4_SearchSeesMappedSlots ==
    \A t \in Threads :
        th[t].pc = "s_loop"
            => \A i \in 1..Len(th[t].hits) :
                   DictHas(id_to_doc_id, IntKey(th[t].hits[i].idx))

\* C5: while every add call on the object succeeded, whenever no add is in
\* progress the slots returned to the callers are distinct, they are exactly
\* 0 .. n-1 for the n calls that returned, and stats reports n vectors.
C5_SlotsContiguous ==
    (alive /\ ~g.addFailed /\ ~AddInProgress)
        => LET n == Len(g.returned)
           IN  /\ \A i, j \in 1..n : i # j => g.returned[i] # g.returned[j]
               /\ Range(g.returned) = 0..(n - 1)
               /\ GetStats(index).total_vectors = n

C5_Witness ==
    /\ ~g.addFailed /\ ~AddInProgress
    /\ Len(g.returned) = MaxAdds
    /\ g.adders = Threads

\* C6: a search with k = 1 for the vector whose add has just returned yields
\* exactly one result, at distance 0, at the slot the add returned or at a slot
\* holding an equal vector.
C6_AddThenSearch ==
    (out.op = "search" /\ out.after # NoAdd)
        => /\ out.ok
           /\ Len(out.results) = 1
           /\ out.results[1].distance = 0
           /\ \/ out.results[1].faiss_id = out.after.slot
              \/ index[out.results[1].faiss_id + 1].vec = out.after.vec

\* C7: in every search result the document is the record written by the add
\* call that inserted the vector at the result's slot.
C7_JoinExact ==
    out.op = "search"
        => \A i \in 1..Len(out.results) :
               /\ out.results[i].faiss_id \in Slots(index)
               /\ out.results[i].document.id = index[out.results[i].faiss_id + 1].by

\* a failed add: no success, no slot, the row written stays in the table
C8_Failed(t) ==
    /\ th'[t].pc = "idle"
    /\ out'.op = "add" /\ ~out'.ok /\ out'.slot = -1
    /\ db' = db
    /\ th[t].doc_id \in 1..Len(db')

\* one step of an add call, by the position it is taken from
C8_AddStep(t) ==
    LET a == th[t]
        b == th'[t]
        sameFiles == file_mapping' = file_mapping /\ file_index' = file_index
    IN  /\ a.pc = "a_meta"
            => /\ b.pc = "a_vec" /\ Len(db') = Len(db) + 1 /\ b.doc_id = Len(db')
               /\ index' = index /\ id_to_doc_id' = id_to_doc_id /\ sameFiles
        /\ a.pc = "a_vec"
            => \/ /\ b.pc = "a_map" /\ Len(index') = Len(index) + 1
                  /\ db' = db /\ id_to_doc_id' = id_to_doc_id /\ sameFiles
               \/ C8_Failed(t)
        /\ a.pc = "a_map"
            => /\ b.pc = "w_map" /\ DictGet(id_to_doc_id', IntKey(b.faiss_id)) = a.doc_id
               /\ db' = db /\ index' = index /\ sameFiles
        /\ a.pc = "w_map"
            => \/ /\ b.pc = "w_idx" /\ file_mapping' = FileOf(JsonDump(id_to_doc_id))
                  /\ file_index' = file_index
               \/ C8_Failed(t)
        /\ a.pc = "w_idx"
            => \/ /\ b.pc = "idle" /\ file_index' = FileOf(index)
                  /\ out'.op = "add" /\ out'.ok /\ out'.slot = a.faiss_id
               \/ C8_Failed(t)

\* C8: an add call goes through its steps in the order metadata written, vector
\* inserted, mapping recorded, mapping file written, index file written, and only
\* then returns its slot; a call that fails after the metadata write reports no
\* success and no slot, and the row it wrote stays in the table.
C8_StepOrder ==
    [][\A t \in Threads : (th[t].op = "add" /\ th'[t] # th[t]) => C8_AddStep(t)]_vars

C8_Witness ==
    /\ out.op = "add" /\ ~out.ok /\ out.err = "io"
    /\ out.post[3] = out.pre[3] + 1

\* the largest key of the mapping file, -1 when it has none
MaxKeyOf(fm) ==
    IF fm.st # "ok" \/ fm.data = <<>> THEN -1
    ELSE CHOOSE m \in {fm.data[i].k : i \in 1..Len(fm.data)} :
             \A i \in 1..Len(fm.data) : fm.data[i].k <= m

\* C9: after a load, if the index file holds other than (largest key of the
\* mapping file) + 1 vectors, the object holds an empty index and the load was
\* reported as failed.
C9_LoadChecksMapping ==
    (g.fresh /\ file_index.st = "ok"
        /\ MaxKeyOf(file_mapping) # Len(file_index.data) - 1)
        => index = <<>> /\ g.log = "error"

\* C10: if the index file, or the mapping file read after it, does not
\* deserialize, the constructor still returns an object, and its index is empty.
C10_LoadFailureFallsBack ==
    (g.fresh /\ (file_index.st = "corrupt"
                    \/ (file_index.st = "ok" /\ file_mapping.st = "corrupt")))
        => alive /\ ~g.raised /\ index = <<>>

C10_Witness ==
    /\ g.fresh /\ alive
    /\ file_index.st = "ok" /\ file_index.data # <<>> /\ file_mapping.st = "corrupt"

\* C11: when a write of the mapping file or of the index file fails during add
\* or save, the call fails and both files are as the last completed persist
\* left them.
C11_FailedWriteKeepsFiles ==
    out.err = "io" => (~out.ok /\ <<file_mapping, file_index>> = g.durable)

\* C12: a search never ends in an exception: whatever goes wrong inside, its
\* caller gets a result list.
C12_SearchNeverRaises ==
    out.op = "search" => out.ok

\* C13: a search on an index that holds no vector returns the empty list, for
\* every query vector and every k, and raises nothing.
C13_EmptyIndexSearch ==
    (out.op = "search" /\ Len(index) = 0) => (out.ok /\ out.results = <<>>)

C13_Witness ==
    /\ alive /\ out.op = "search" /\ out.ok
    /\ Len(index) = 0 /\ db # <<>>

\* C14: two add calls on one object never overlap: while one caller is between
\* the first and the last step of its add, it holds the lock and no other
\* caller is inside an add.
C14_AddsSerialized ==
    \A t \in Threads :
        th[t].op = "add"
            => /\ lock = t
               /\ \A u \in Threads \ {t} : th[u].op # "add"

C14_Witness ==
    \E t \in Threads :
        /\ th[t].op = "add" /\ th[t].pc = "a_map"
        /\ g.adders = Threads \ {t}

\* C15: while a save is writing the persisted files, no add and no search of
\* another caller is in progress.
C15_SaveExclusive ==
    \A t \in Threads :
        th[t].op = "save" => \A u \in Threads \ {t} : th[u].pc = "idle"

\* C16: the slot a successful add returns is the vector count of the index
\* just before the insert, also on an object loaded from persisted files, and
\* an object never returns a slot twice.
C16_SlotIsPreviousCount ==
    /\ (out.op = "add" /\ out.ok) => out.slot = out.pre[1]
    /\ \A i, j \in 1..Len(g.returned) : i # j => g.returned[i] # g.returned[j]

\* C17: after a successful operation (the construction of the object, or a
\* call that returned), the keys of the mapping are exactly 0 .. next_faiss_id-1
\* and next_faiss_id is the vector count of the index.
C17_KeyDomain ==
    (alive /\ (g.fresh \/ out.ok))
        => /\ {id_to_doc_id[i].k : i \in 1..Len(id_to_doc_id)}
                = {IntKey(n) : n \in 0..(next_faiss_id - 1)}
           /\ next_faiss_id = Len(index)

\* C18: whenever no add is in progress, every slot of the index has exactly one
\* entry in the mapping, and the document id of that entry is a row of the
\* metadata table.
C18_ReferentialIntegrity ==
    (alive /\ ~AddInProgress)
        => \A s \in Slots(index) :
               /\ Cardinality({i \in 1..Len(id_to_doc_id) :
                                  id_to_doc_id[i].k = IntKey(s)}) = 1
               /\ GetDocument(db, DictGet(id_to_doc_id, IntKey(s))) # <<>>

\* a step of a save: the object and the table stay as they are; in a save that
\* directly follows a completed save, a write that succeeds leaves the files
\* as the first save wrote them
C19_SaveStep(t) ==
    /\ index' = index /\ id_to_doc_id' = id_to_doc_id
    /\ next_faiss_id' = next_faiss_id /\ db' = db
    /\ (th[t].again /\ out'.err # "io")
          => (file_mapping' = file_mapping /\ file_index' = file_index)

\* C19: save is idempotent: a save called directly after a save leaves the
\* mapping file and the index file as the first left them, and no save changes
\* the index, the mapping, next_faiss_id or the metadata table.
C19_SaveIdempotent ==
    [][\A t \in Threads : (th[t].op = "save" /\ th'[t] # th[t]) => C19_SaveStep(t)]_vars

C19_Witness ==
    /\ out.op = "save" /\ out.ok /\ out.again
    /\ index # <<>> /\ file_index = FileOf(index)

\* C20: the ids of the document rows are distinct and increase in insertion
\* order; a step of the program only appends rows: no row is deleted or changed
\* and a new row gets an id above every id assigned before.
C20_AppendOnly ==
    [][/\ Len(db') >= Len(db)
       /\ \A i \in 1..Len(db) : db'[i] = db[i]
       /\ \A i \in 1..Len(db') : \A j \in 1..(i - 1) : db'[j].id < db'[i].id]_vars

C20_Witness ==
    /\ ~g.first /\ Len(db) = MaxDocs
    /\ out.op = "add" /\ out.ok

Snippets(results) == [i \in 1..Len(results) |-> results[i].document.snippet]

\* C21: with dimension 4, once [1,0,0,0] is added as document a, [0,1,0,0] as b
\* and [0.99,0.01,0,0] as c, search([1,0,0,0], k=2) returns exactly two results,
\* a first and c second; b is not among them.
C21_Scenario ==
    [][\A t \in Threads :
          (/\ th[t].pc = "s_loop" /\ th'[t].pc = "idle"
           /\ th[t].q = VecA /\ th[t].k = 2
           /\ Len(index) = 3 /\ ~AddInProgress)
              => Snippets(out'.results) = <<"a", "c">>]_vars

C21_Witness ==
    /\ out.op = "search" /\ out.ok /\ Len(index) = 3
    /\ Snippets(out.results) = <<"a", "c">>
    /\ out.results[1].distance = 0

\* C22: when a successful add returns, the mapping file holds the whole mapping
\* of the object (every slot with its document id, the slot just recorded
\* included, and no other key), and the index file holds as many vectors as the
\* index of the object.
C22_PersistedOnReturn ==
    (out.op = "add" /\ out.ok)
        => /\ file_mapping.st = "ok" /\ file_index.st = "ok"
           /\ LET f == JsonLoad(file_mapping.data)
              IN  /\ \A i \in 1..Len(id_to_doc_id) :
                        id_to_doc_id[i].k.t = "int"
                            => DictGet(f, StrKey(id_to_doc_id[i].k.n)) = id_to_doc_id[i].v
                  /\ \A i \in 1..Len(f) :
                        \E j \in 1..Len(id_to_doc_id) : id_to_doc_id[j].k.n = f[i].k.n
                  /\ DictHas(f, StrKey(out.slot))
           /\ Len(file_index.data) = Len(index)

C22_Witness ==
    /\ out.op = "add" /\ out.ok
    /\ DictHas(id_to_doc_id, StrKey(0)) /\ DictHas(id_to_doc_id, IntKey(0))

\* a hit resolves: it is no sentinel, its slot has a mapping entry, and the
\* entry's document id is a row of the table
C23_Resolves(hit) ==
    /\ hit.idx # -1
    /\ DictHas(id_to_doc_id, IntKey(hit.idx))
    /\ GetDocument(db, DictGet(id_to_doc_id, IntKey(hit.idx))) # <<>>

\* C23: search returns exactly the hits that resolve, in the order of the hits:
\* a hit is dropped if and only if its slot is -1, its slot has no mapping entry
\* or its document id has no row; a hit at slot 0 that resolves is kept, and a
\* hit at slot -1 never yields a result.
C23_DropsOnlyUnresolved ==
    [][\A t \in Threads :
          (th[t].pc = "s_loop" /\ th'[t].pc = "idle")
              => LET kept == SelectSeq(th[t].hits, C23_Resolves)
                 IN  /\ Len(out'.results) = Len(kept)
                     /\ \A i \in 1..Len(kept) :
                           /\ out'.results[i].faiss_id = kept[i].idx
                           /\ out'.results[i].distance = kept[i].dist
                           /\ out'.results[i].document
                                 = db[DictGet(id_to_doc_id, IntKey(kept[i].idx))]]_vars

C23_Witness ==
    /\ out.op = "search" /\ out.ok
    /\ Len(out.results) = 1 /\ out.results[1].faiss_id = 0
    /\ C23_Resolves([dist |-> 0, idx |-> 1])

\* C24: a search on a non-empty index returns at most min(k, total_vectors)
\* results, in ascending order of distance.
C24_BoundedAscending ==
    [][\A t \in Threads :
          (th[t].pc = "s_loop" /\ th'[t].pc = "idle")
              => /\ Len(out'.results) <= Min(th[t].k, Len(index))
                 /\ \A i, j \in 1..Len(out'.results) :
                       i < j => out'.results[i].distance <= out'.results[j].distance]_vars

C24_Witness ==
    /\ out.op = "search" /\ out.ok
    /\ Len(out.results) = 2
    /\ out.results[1].distance < out.results[2].distance

\* C25: the prompt built from a non-empty list of search results holds, for each
\* of the first ten results, the snippet of the result's document record.
C25_PromptHasSnippets ==
    (out.op = "search" /\ out.results # <<>>)
        => \A i \in 1..Min(EvidenceLimit, Len(out.results)) :
               BuildPrompt(out.results)[i].snippet = out.results[i].document.snippet

\* C26: when _load_or_create_index has finished, by whichever branch,
\* next_faiss_id, the vector count of the index and the number of mapping
\* entries are equal, and every mapping key is an int below next_faiss_id.
C26_LoadedStateConsistent ==
    (alive /\ g.fresh)
        => /\ next_faiss_id = Len(index)
           /\ Len(index) = Len(id_to_doc_id)
           /\ \A i \in 1..Len(id_to_doc_id) :
                 /\ id_to_doc_id[i].k.t = "int"
                 /\ id_to_doc_id[i].k.n < next_faiss_id

\* C27: get_index makes at most one FaissIndex instance in a process, also
\* when the first calls come from several threads at once.
C27_OneInstance ==
    g.created <= 1

\* C28: an add call that raises, at the insertion of the vector or at a write
\* of the files, leaves the vector count of the index and the mapping as they
\* were before the call.
C28_FailedAddNoTrace ==
    (out.op = "add" /\ ~out.ok)
        => (out.post[1] = out.pre[1] /\ out.post[2] = out.pre[2])

\* C29: when the ingestion of a file returns False, no vector and no metadata
\* row of any chunk of the file has been added: the index and the table are as
\* they were when the ingestion began.
C29_IngestAllOrNothing ==
    ingest.ret = "false"
        => (Len(index) = ingest.pre[1] /\ Len(db) = ingest.pre[3])

\* C30: for a text longer than size, size >= 1 and 0 <= overlap < size, the spans
\* chunk_text takes cover the text: the first starts at 0, each next one starts
\* no later than the one before it ends, and the last ends at or after the end
\* of the text.
C30_SpansCoverText ==
    chunker.pc = "done"
        => LET sp == chunker.spans
           IN  /\ sp # <<>>
               /\ sp[1].start = 0
               /\ \A i \in 1..(Len(sp) - 1) : sp[i + 1].start <= sp[i].end
               /\ sp[Len(sp)].end >= Len(chunker.text)

====
